---- MODULE Spec2Model ----
(***************************************************************************)
(* Model of dsl_parser.py: the regex scanner `tokenize`, the recursive     *)
(* descent `Parser` with its inline semantic checks, and the runner        *)
(* `main`.                                                                 *)
(*                                                                         *)
(* A source text is a sequence of one-character strings; a lexeme is the   *)
(* sub-sequence of characters the pattern matched.  The parser is a        *)
(* machine over its call stack: each method is the list of its statements, *)
(* tagged with their source lines, and the top frame of `stack` points at  *)
(* the statement about to run.                                             *)
(***************************************************************************)
EXTENDS Integers, Sequences, FiniteSets, TLC

(***************************************************************************)
(* Bounds of the model.                                                    *)
(***************************************************************************)
\* longest enumerated source text (SpecLex)
MaxTextLen == 4
\* longest token list, the EOF token included (Spec)
MaxLen == 46
\* most newline tokens in a token list (Spec)
MaxNL == 2

(***************************************************************************)
(* Words of the language, as character sequences.                          *)
(***************************************************************************)
CARRUSEL == <<"C","A","R","R","U","S","E","L">>
PRODUCTO == <<"P","R","O","D","U","C","T","O">>
ESPACIOS == <<"E","S","P","A","C","I","O","S">>
CAPACIDAD == <<"C","A","P","A","C","I","D","A","D">>
PRECIO == <<"P","R","E","C","I","O">>
MINIMO == <<"M","I","N","I","M","O">>
MAXIMO == <<"M","A","X","I","M","O">>
CRITICIDAD == <<"C","R","I","T","I","C","I","D","A","D">>
ALTA == <<"A","L","T","A">>
MEDIA == <<"M","E","D","I","A">>
BAJA == <<"B","A","J","A">>
SIMULAR == <<"S","I","M","U","L","A","R">>
TRANSACCIONES == <<"T","R","A","N","S","A","C","C","I","O","N","E","S">>
RETIRAR == <<"R","E","T","I","R","A","R">>
RESURTIR == <<"R","E","S","U","R","T","I","R">>
CONTAR == <<"C","O","N","T","A","R">>
ESTADO == <<"E","S","T","A","D","O">>
ESTADISTICAS == <<"E","S","T","A","D","I","S","T","I","C","A","S">>
REPORTE == <<"R","E","P","O","R","T","E">>

RESERVED ==
  { CARRUSEL, PRODUCTO, ESPACIOS, CAPACIDAD,
    PRECIO, MINIMO, MAXIMO, CRITICIDAD,
    ALTA, MEDIA, BAJA,
    SIMULAR, TRANSACCIONES,
    RETIRAR, RESURTIR, CONTAR,
    ESTADO, ESTADISTICAS, REPORTE }

SYMBOLS ==
  ("{" :> "LBRACE") @@ ("}" :> "RBRACE") @@ ("(" :> "LPAREN") @@
  (")" :> "RPAREN") @@ ("[" :> "LBRACKET") @@ ("]" :> "RBRACKET") @@
  (":" :> "COLON") @@ ("," :> "COMMA") @@ (";" :> "SEMI")

(***************************************************************************)
(* Character classes of the regular expressions.                           *)
(***************************************************************************)
Digits == {"0","1","2","3","4","5","6","7","8","9"}

Letters ==
  {"A","B","C","D","E","F","G","H","I","J","K","L","M",
   "N","O","P","Q","R","S","T","U","V","W","X","Y","Z",
   "a","b","c","d","e","f","g","h","i","j","k","l","m",
   "n","o","p","q","r","s","t","u","v","w","x","y","z"}

\* length of the longest run of characters of S in t from offset i (0-based)
RECURSIVE Run(_, _, _)
Run(t, i, S) ==
  IF i < Len(t) /\ t[i + 1] \in S THEN 1 + Run(t, i + 1, S) ELSE 0

\* Each Match operator is the length of the pattern's match at offset i of t,
\* 0 when the pattern does not match there (no pattern matches the empty text).

\* RE_WHITESPACE = [ \t]+
MatchWhitespace(t, i) == Run(t, i, {" ", "\t"})

\* RE_NEWLINE = \n
MatchNewline(t, i) == IF i < Len(t) /\ t[i + 1] = "\n" THEN 1 ELSE 0

\* length of the rest of the line from offset i ('.' matches all but a newline)
RECURSIVE RestOfLine(_, _)
RestOfLine(t, i) ==
  IF i < Len(t) /\ t[i + 1] # "\n" THEN 1 + RestOfLine(t, i + 1) ELSE 0

\* RE_COMMENT = #.*
MatchComment(t, i) ==
  IF i < Len(t) /\ t[i + 1] = "#" THEN 1 + RestOfLine(t, i + 1) ELSE 0

\* RE_DECIMAL = \d+\.\d+
MatchDecimal(t, i) ==
  LET a == Run(t, i, Digits)
      b == Run(t, i + a + 1, Digits)
  IN  IF a > 0 /\ i + a < Len(t) /\ t[i + a + 1] = "." /\ b > 0
      THEN a + 1 + b ELSE 0

\* RE_INT = \d+
MatchInt(t, i) == Run(t, i, Digits)

\* the body ([^"\\]|\\.)* and the closing quote, scanned from offset j:
\* the offset just after the closing quote, or -1 when the pattern fails
RECURSIVE StringBody(_, _)
StringBody(t, j) ==
  IF j >= Len(t) THEN -1
  ELSE IF t[j + 1] = "\"" THEN j + 1
  ELSE IF t[j + 1] = "\\"
       THEN IF j + 1 < Len(t) /\ t[j + 2] # "\n" THEN StringBody(t, j + 2) ELSE -1
  ELSE StringBody(t, j + 1)

\* RE_STRING = "([^"\\]|\\.)*"
MatchString(t, i) ==
  IF i < Len(t) /\ t[i + 1] = "\""
  THEN LET e == StringBody(t, i + 1) IN IF e < 0 THEN 0 ELSE e - i
  ELSE 0

\* RE_ID = [A-Za-z][A-Za-z0-9_]*
MatchId(t, i) ==
  IF i < Len(t) /\ t[i + 1] \in Letters
  THEN 1 + Run(t, i + 1, Letters \cup Digits \cup {"_"})
  ELSE 0

\* text[i : i + k]
Slice(t, i, k) == SubSeq(t, i + 1, i + k)

Token(type, value, ln, cl) == [type |-> type, value |-> value, line |-> ln, col |-> cl]

\* advance that forgets to put the column back to 1 after a newline
RECURSIVE Mut_advance(_, _, _)
Mut_advance(matched, ln, cl) ==
  IF matched = <<>> THEN <<ln, cl>>
  ELSE IF Head(matched) = "\n" THEN Mut_advance(Tail(matched), ln + 1, cl + 1)
  ELSE Mut_advance(Tail(matched), ln, cl + 1)

\* the nested function advance of tokenize: the <<line, col>> after `matched`
RECURSIVE advance(_, _, _)
advance(matched, ln, cl) ==
  IF matched = <<>> THEN <<ln, cl>>
  ELSE IF Head(matched) = "\n" THEN advance(Tail(matched), ln + 1, 1)
  ELSE advance(Tail(matched), ln, cl + 1)

\* the scanning loop with the integer pattern tried before the decimal one
Mut_Branch(t, i) ==
  IF MatchNewline(t, i) > 0 THEN "newline"
  ELSE IF MatchWhitespace(t, i) > 0 THEN "whitespace"
  ELSE IF MatchComment(t, i) > 0 THEN "comment"
  ELSE IF t[i + 1] \in DOMAIN SYMBOLS THEN "symbol"
  ELSE IF MatchString(t, i) > 0 THEN "string"
  ELSE IF MatchInt(t, i) > 0 THEN "int"
  ELSE IF MatchDecimal(t, i) > 0 THEN "decimal"
  ELSE IF MatchId(t, i) > 0 THEN "id"
  ELSE "unknown"

\* the branch of the scanning loop taken at offset i: the first pattern, in
\* the order of the source, that matches
Branch(t, i) ==
  IF MatchNewline(t, i) > 0 THEN "newline"
  ELSE IF MatchWhitespace(t, i) > 0 THEN "whitespace"
  ELSE IF MatchComment(t, i) > 0 THEN "comment"
  ELSE IF t[i + 1] \in DOMAIN SYMBOLS THEN "symbol"
  ELSE IF MatchString(t, i) > 0 THEN "string"
  ELSE IF MatchDecimal(t, i) > 0 THEN "decimal"
  ELSE IF MatchInt(t, i) > 0 THEN "int"
  ELSE IF MatchId(t, i) > 0 THEN "id"
  ELSE "unknown"


(***************************************************************************)
(* Source texts.                                                           *)
(***************************************************************************)
\* characters of the enumerated texts: newline, blank, comment start, an
\* invalid character, quote, backslash, a digit, the dot, a letter
SmallAlphabet == {"\n", " ", "#", "@", "\"", "\\", "1", ".", "a"}

RECURSIVE TextsOfLen(_)
TextsOfLen(k) ==
  IF k = 0 THEN {<<>>}
  ELSE {Append(t, c) : t \in TextsOfLen(k - 1), c \in SmallAlphabet}

SmallTexts == UNION {TextsOfLen(k) : k \in 0..MaxTextLen}

\* a program with one carousel, one product, one transaction and one query;
\* `price` is the text of the PRECIO literal, `ref` the product the
\* transaction names
ProgramText(price, ref) ==
  CARRUSEL \o <<" ","c","1"," ","{","\n">> \o
  ESPACIOS \o <<":"," ","5","\n">> \o
  CAPACIDAD \o <<":"," ","2","0","\n">> \o
  PRODUCTO \o <<" ","p","1"," ","{","\n">> \o
  PRECIO \o <<":"," ">> \o price \o <<"\n">> \o
  MINIMO \o <<":"," ","1","\n">> \o
  MAXIMO \o <<":"," ","1","0","\n">> \o
  CRITICIDAD \o <<":"," ">> \o ALTA \o <<"\n","}","\n","}","\n">> \o
  SIMULAR \o <<" ","{","\n">> \o
  TRANSACCIONES \o <<":"," ","[">> \o RESURTIR \o <<"(">> \o ref \o
  <<","," ","5",")","]","\n">> \o
  ESTADO \o <<"\n","}","\n">>

ValidProgram == ProgramText(<<"1",".","5","0">>, <<"p","1">>)
NegativePriceProgram == ProgramText(<<"-","1",".","0">>, <<"p","1">>)
UndefinedProductProgram == ProgramText(<<"1",".","5","0">>, <<"p","2">>)

Programs == {ValidProgram, NegativePriceProgram, UndefinedProductProgram}

(***************************************************************************)
(* State.                                                                  *)
(***************************************************************************)
VARIABLES
  text, i, line, col, tokens,   \* tokenize: its argument and its locals
  phase,                        \* where main is: "lex", "lexed", "parse",
                                \* "accepted" (exit 0) or "rejected" (exit 2)
  err,                          \* the DSLParseError raised, if any
  pos,                          \* Parser.pos
  cur,                          \* the token Parser.current() returns
  products_defined,             \* Parser.products_defined
  carousels_defined,            \* Parser.carousels_defined
  stack,                        \* the statements still to run, innermost first
  loc,                          \* the local variables of the active methods
  nl,                           \* newline tokens the token list has shown so far
  seenC, seenP,                 \* identifiers of the CARRUSEL and PRODUCTO
                                \* definitions read so far (history)
  undefRef,                     \* a complete transaction entry named a product
                                \* that no definition above it declared (history)
  kwAtId,                       \* a reserved word stood where an identifier
                                \* was expected (history)
  finEntry,                     \* the parser's state when fin was entered
  nlGap,                        \* newline tokens were skipped between the
                                \* identifier of a definition and its '{'
  stmt,                         \* the statement the parser is at: the one the
                                \* top frame of stack points to
  iters                         \* for each loop iteration under way, innermost
                                \* first: has it consumed a token (history)

lexVars == <<text, i, line, col, tokens>>
parseVars == <<pos, cur, products_defined, carousels_defined, stack, stmt, loc, nl>>
histVars == <<seenC, seenP, undefRef, kwAtId, finEntry, nlGap>>
vars == <<lexVars, phase, err, parseVars, histVars, iters>>

\* Python's None, where a lexeme (a sequence of characters) may stand
None == <<"None">>

\* the message of a DSLParseError: its kind, what it is about, and for a
\* lexical error the position it reports
Error(kind, code, ln, cl) == [kind |-> kind, code |-> code, line |-> ln, col |-> cl]
NoError == Error("none", "", 0, 0)

\* the type and the lexeme of a token, all the parser decides on
Tok(type, value) == [type |-> type, value |-> value]
\* what stands past the end of the token list
NoToken == Tok("none", None)
\* the token of a run that looks at no token any more
Unread == Tok("unread", None)

NoLocals ==
  [cid |-> None, espacios |-> -1, capacidad |-> -1,
   pid |-> None, precio |-> <<0, 1>>, minimo |-> -1, maximo |-> -1,
   tx_pid |-> None, qty |-> -1]

\* no statement: the parser has not started
NoStmt == [op |-> "none", t |-> "", v |-> "", ln |-> 0]

NoFin == [pos |-> -1, first |-> "", stack |-> <<>>, carousels |-> {}, products |-> {}]

ParserIdle ==
  /\ pos = 0 /\ cur = NoToken
  /\ products_defined = {} /\ carousels_defined = {}
  /\ stack = <<>> /\ stmt = NoStmt /\ loc = NoLocals /\ nl = 0
  /\ seenC = {} /\ seenP = {} /\ undefRef = FALSE /\ kwAtId = FALSE
  /\ finEntry = NoFin /\ nlGap = FALSE /\ iters = <<>>

(***************************************************************************)
(* tokenize: one action per branch of its loop.                            *)
(***************************************************************************)
AtBranch(b) == phase = "lex" /\ i < Len(text) /\ Branch(text, i) = b

\* consume k characters, emitting the tokens toks
Scan(k, toks) ==
  LET p == advance(Slice(text, i, k), line, col) IN
  /\ tokens' = tokens \o toks
  /\ i' = i + k
  /\ line' = p[1]
  /\ col' = p[2]
  /\ UNCHANGED <<text, phase, err, parseVars, histVars, iters>>

LexNewline ==
  /\ AtBranch("newline")
  /\ Scan(MatchNewline(text, i), <<Token("NL", <<"\\", "n">>, line, col)>>)

LexWhitespace ==
  /\ AtBranch("whitespace")
  /\ Scan(MatchWhitespace(text, i), <<>>)

LexComment ==
  /\ AtBranch("comment")
  /\ Scan(MatchComment(text, i), <<>>)

LexSymbol ==
  /\ AtBranch("symbol")
  /\ Scan(1, <<Token(SYMBOLS[text[i + 1]], <<text[i + 1]>>, line, col)>>)

LexString ==
  /\ AtBranch("string")
  /\ LET k == MatchString(text, i) IN
     Scan(k, <<Token("STRING", Slice(text, i, k), line, col)>>)

LexDecimal ==
  /\ AtBranch("decimal")
  /\ LET k == MatchDecimal(text, i) IN
     Scan(k, <<Token("DECIMAL", Slice(text, i, k), line, col)>>)

LexInt ==
  /\ AtBranch("int")
  /\ LET k == MatchInt(text, i) IN
     Scan(k, <<Token("INT", Slice(text, i, k), line, col)>>)

LexId ==
  /\ AtBranch("id")
  /\ LET k == MatchId(text, i)
         val == Slice(text, i, k)
         ttype == IF val \in RESERVED THEN "KW" ELSE "ID"
     IN  Scan(k, <<Token(ttype, val, line, col)>>)

LexUnknown ==
  /\ AtBranch("unknown")
  /\ phase' = "rejected"
  /\ err' = Error("lexical", text[i + 1], line, col)
  /\ UNCHANGED <<lexVars, parseVars, histVars, iters>>

LexEOF ==
  /\ phase = "lex" /\ i >= Len(text)
  /\ tokens' = Append(tokens, Token("EOF", <<>>, line, col))
  /\ phase' = "lexed"
  /\ UNCHANGED <<text, i, line, col, err, parseVars, histVars, iters>>


(***************************************************************************)
(* The statements of the parser, method by method.                         *)
(***************************************************************************)
\* a statement of the parser's source: what it does (op), its arguments
\* (t, v) and the source line it stands on (ln)
Stmt(op, t, v, ln) == [op |-> op, t |-> t, v |-> v, ln |-> ln]
Consume(t, v, ln) == Stmt("consume", t, v, ln)
Call(f, ln) == Stmt("call", f, None, ln)
\* the end of a method, and the end of the body of a while loop
Return(f) == Stmt("return", f, None, 0)
EndLoop == Stmt("next", "", None, 0)

main_body == <<Call("programa", 409), Stmt("ok", "", None, 411)>>

programa_body ==
  <<Call("skip_nl", 187), Call("definiciones", 188), Call("skip_nl", 189),
    Call("simulacion", 190), Call("skip_nl", 191), Consume("EOF", None, 192),
    Return("programa")>>

\* a loop body of definiciones that parses no definition
Mut_definiciones_loop == <<Call("skip_nl", 198), EndLoop>>

\* the body of the while loop of definiciones
definiciones_loop == <<Call("def_carrusel", 197), Call("skip_nl", 198), EndLoop>>

\* def_carrusel without the skip_nl between the identifier and '{'
Mut_def_carrusel_body ==
  <<Consume("KW", CARRUSEL, 202), Stmt("cid", "", None, 203),
    Consume("LBRACE", None, 211), Call("skip_nl", 212),
    Call("parametros", 214), Call("skip_nl", 215),
    Call("catalogo", 217), Call("skip_nl", 218),
    Consume("RBRACE", None, 220), Call("skip_nl", 221), Return("def_carrusel")>>

def_carrusel_body ==
  <<Consume("KW", CARRUSEL, 202), Stmt("cid", "", None, 203),
    Call("skip_nl", 210), Consume("LBRACE", None, 211), Call("skip_nl", 212),
    Call("parametros", 214), Call("skip_nl", 215),
    Call("catalogo", 217), Call("skip_nl", 218),
    Consume("RBRACE", None, 220), Call("skip_nl", 221), Return("def_carrusel")>>

parametros_body ==
  <<Consume("KW", ESPACIOS, 225), Consume("COLON", None, 226),
    Stmt("espacios", "", None, 227), Call("fin", 230),
    Consume("KW", CAPACIDAD, 232), Consume("COLON", None, 233),
    Stmt("capacidad", "", None, 234), Call("fin", 237), Return("parametros")>>

\* the body of the while loop of catalogo
catalogo_loop == <<Call("def_producto", 242), Call("skip_nl", 243), EndLoop>>

def_producto_body ==
  <<Consume("KW", PRODUCTO, 247), Stmt("pid", "", None, 248),
    Call("skip_nl", 255), Consume("LBRACE", None, 256), Call("skip_nl", 257),
    Consume("KW", PRECIO, 259), Consume("COLON", None, 260),
    Stmt("precio", "", None, 261), Call("fin", 264),
    Consume("KW", MINIMO, 266), Consume("COLON", None, 267),
    Stmt("minimo", "", None, 268), Call("fin", 269),
    Consume("KW", MAXIMO, 271), Consume("COLON", None, 272),
    Stmt("maximo", "", None, 273), Call("fin", 276),
    Consume("KW", CRITICIDAD, 278), Consume("COLON", None, 279),
    Stmt("criticidad", "", None, 281), Call("fin", 286),
    Consume("RBRACE", None, 288), Call("skip_nl", 289), Return("def_producto")>>

simulacion_body ==
  <<Consume("KW", SIMULAR, 293), Call("skip_nl", 294),
    Consume("LBRACE", None, 295), Call("skip_nl", 296),
    Call("bloque_transacciones", 298), Call("skip_nl", 299),
    Stmt("consultas", "", None, 301), Consume("RBRACE", None, 306),
    Return("simulacion")>>

\* the body of the while loop of simulacion
consultas_loop == <<Call("consulta", 302), Call("fin", 303), Call("skip_nl", 304), EndLoop>>

bloque_transacciones_body ==
  <<Consume("KW", TRANSACCIONES, 310), Consume("COLON", None, 311),
    Consume("LBRACKET", None, 312), Call("skip_nl", 313),
    Stmt("lista", "", None, 315), Call("skip_nl", 318),
    Consume("RBRACKET", None, 319), Stmt("fin_bloque", "", None, 321),
    Call("fin", 322), Return("bloque_transacciones")>>

lista_tx_body == <<Call("tx", 330), Stmt("mas_tx", "", None, 331), Return("lista_tx")>>

\* the body of the while loop of lista_tx
lista_tx_loop ==
  <<Consume("COMMA", None, 332), Call("skip_nl", 333), Call("tx", 334), EndLoop>>

\* the three branches of tx
tx_retirar ==
  <<Consume("KW", RETIRAR, 339), Consume("LPAREN", None, 340),
    Stmt("tx_pid", "", None, 341), Consume("COMMA", None, 342),
    Stmt("tx_qty", "", None, 343), Consume("RPAREN", None, 344),
    Stmt("check_tx_semantics", "qty", None, 345), Return("tx")>>

tx_resurtir ==
  <<Consume("KW", RESURTIR, 349), Consume("LPAREN", None, 350),
    Stmt("tx_pid", "", None, 351), Consume("COMMA", None, 352),
    Stmt("tx_qty", "", None, 353), Consume("RPAREN", None, 354),
    Stmt("check_tx_semantics", "qty", None, 355), Return("tx")>>

tx_contar ==
  <<Consume("KW", CONTAR, 359), Consume("LPAREN", None, 360),
    Stmt("tx_pid", "", None, 361), Consume("RPAREN", None, 362),
    Stmt("check_tx_semantics", "1", None, 364), Return("tx")>>

\* the three branches of consulta
consulta_estado == <<Consume("KW", ESTADO, 379), Return("consulta")>>
consulta_estadisticas == <<Consume("KW", ESTADISTICAS, 382), Return("consulta")>>
consulta_reporte ==
  <<Consume("KW", REPORTE, 385), Consume("LPAREN", None, 386),
    Consume("STRING", None, 387), Consume("RPAREN", None, 388), Return("consulta")>>

\* fin that skips no newline after ';'
Mut_fin_semi == <<Consume("SEMI", None, 176), Return("fin")>>

\* the two branches of fin
fin_semi == <<Consume("SEMI", None, 176), Call("skip_nl", 177), Return("fin")>>
fin_nl == <<Call("skip_nl", 179), Return("fin")>>

Body ==
  [main |-> main_body, programa |-> programa_body,
   definiciones_loop |-> definiciones_loop, def_carrusel |-> def_carrusel_body,
   parametros |-> parametros_body, catalogo_loop |-> catalogo_loop,
   def_producto |-> def_producto_body, simulacion |-> simulacion_body,
   consultas_loop |-> consultas_loop,
   bloque_transacciones |-> bloque_transacciones_body,
   lista_tx |-> lista_tx_body, lista_tx_loop |-> lista_tx_loop,
   tx_retirar |-> tx_retirar, tx_resurtir |-> tx_resurtir, tx_contar |-> tx_contar,
   consulta_estado |-> consulta_estado, consulta_estadisticas |-> consulta_estadisticas,
   consulta_reporte |-> consulta_reporte, fin_semi |-> fin_semi, fin_nl |-> fin_nl]

(***************************************************************************)
(* The call stack: a frame is a body and the index of its statement about  *)
(* to run; the frame of a caller stays at its call until the callee        *)
(* returns.                                                                *)
(***************************************************************************)
Frame(f) == [f |-> f, k |-> 1]

\* the statement a stack is about to run
StmtAt(s) == Body[Head(s).f][Head(s).k]

Here == stmt

At(op, t) == phase = "parse" /\ Here.op = op /\ Here.t = t

\* the stack s, its top frame at its next statement
After(s) == <<[Head(s) EXCEPT !.k = @ + 1]>> \o Tail(s)

\* a call, or the entry of a loop body
Push(f) == <<Frame(f)>> \o stack

(***************************************************************************)
(* main: Parser(tokens) and the call of programa.                          *)
(***************************************************************************)
\* tokens[p] as the parser sees it (p counted from 0, as in the source)
TokenAt(p) ==
  IF p < Len(tokens) THEN Tok(tokens[p + 1].type, tokens[p + 1].value) ELSE NoToken

main_parse ==
  /\ phase = "lexed"
  /\ phase' = "parse"
  /\ pos' = 0
  /\ cur' = TokenAt(0)
  /\ products_defined' = {}
  /\ carousels_defined' = {}
  /\ stack' = <<Frame("main")>>
  /\ stmt' = StmtAt(stack')
  /\ UNCHANGED <<lexVars, err, loc, nl, histVars, iters>>

(***************************************************************************)
(* The tokens of a token list that is not the result of a scan of a text   *)
(* given in full: every token tokenize can emit, over two identifiers, two *)
(* integers, one decimal and one string.                                   *)
(***************************************************************************)
StreamIds == {<<"a">>, <<"b">>}
StreamInts == {<<"0">>, <<"1">>}
NLToken == Tok("NL", <<"\\", "n">>)
EOFToken == Tok("EOF", <<>>)

StreamTokens ==
  {Tok("KW", w) : w \in RESERVED}
  \cup {Tok(SYMBOLS[c], <<c>>) : c \in DOMAIN SYMBOLS}
  \cup {Tok("ID", x) : x \in StreamIds}
  \cup {Tok("INT", n) : n \in StreamInts}
  \cup {Tok("DECIMAL", <<"1", ".", "5">>), Tok("STRING", <<"\"", "r", "\"">>)}
  \cup {NLToken, EOFToken}

\* the tokens that can stand at index p of the token list, the token at
\* index p - 1 being last: the list ends with its one EOF token, has at most
\* MaxLen tokens and at most MaxNL newline tokens
TokensAt(p, last) ==
  IF tokens # <<>> THEN {TokenAt(p)}
  ELSE IF last.type = "EOF" THEN {NoToken}
  ELSE IF p >= MaxLen - 1 THEN {EOFToken}
  ELSE IF nl < MaxNL THEN StreamTokens
  ELSE StreamTokens \ {NLToken}

(***************************************************************************)
(* Parser: the helpers.                                                    *)
(***************************************************************************)
match(ttype, value) ==
  /\ cur.type = ttype
  /\ value # None => cur.value = value

\* the parse goes on: the token is consumed when adv, and the stack stk, the
\* symbol table cs, ps and the locals lc are what is left
Resume(adv, stk, cs, ps, lc, its) ==
  /\ phase' = "parse"
  /\ err' = err
  /\ stack' = stk
  /\ stmt' = StmtAt(stk)
  /\ carousels_defined' = cs
  /\ products_defined' = ps
  /\ loc' = lc
  /\ iters' = its
  /\ UNCHANGED lexVars
  /\ IF adv
     THEN /\ pos' = pos + 1
          /\ cur' \in TokensAt(pos + 1, cur)
          /\ nl' = IF cur'.type = "NL" /\ tokens = <<>> THEN nl + 1 ELSE nl
     ELSE UNCHANGED <<pos, cur, nl>>

\* the loop iterations under way, each having consumed a token
Consumed == [j \in DOMAIN iters |-> TRUE]

Go(adv, stk, cs, ps, lc) == Resume(adv, stk, cs, ps, lc, IF adv THEN Consumed ELSE iters)

\* raise DSLParseError: nothing runs after it (main prints it and exits), and
\* no token is looked at again; adv when the statement consumed its token
\* before it raised
Raise(adv, kind, code) ==
  /\ phase' = "rejected"
  /\ err' = Error(kind, code, 0, 0)
  /\ pos' = IF adv THEN pos + 1 ELSE pos
  /\ cur' = Unread
  /\ UNCHANGED <<nl, stack, stmt, carousels_defined, products_defined, loc, iters, lexVars>>

Same(adv, stk) == Go(adv, stk, carousels_defined, products_defined, loc)

\* the statement is done: on to the next of its method
Done == After(stack)

DigitValue(c) == CHOOSE n \in 0..9 : <<"0","1","2","3","4","5","6","7","8","9">>[n + 1] = c

\* int(lexeme) of a lexeme of digits
RECURSIVE IntOf(_)
IntOf(cs) ==
  IF cs = <<>> THEN 0
  ELSE 10 * IntOf(SubSeq(cs, 1, Len(cs) - 1)) + DigitValue(cs[Len(cs)])

RECURSIVE Pow10(_)
Pow10(k) == IF k = 0 THEN 1 ELSE 10 * Pow10(k - 1)

\* float(lexeme) of a lexeme [-] digits '.' digits, as <<numerator, denominator>>
FloatOf(cs) ==
  LET neg == cs # <<>> /\ Head(cs) = "-"
      ds == IF neg THEN Tail(cs) ELSE cs
      a == Run(ds, 0, Digits)
      frac == SubSeq(ds, a + 2, Len(ds))
      num == IntOf(SubSeq(ds, 1, a)) * Pow10(Len(frac)) + IntOf(frac)
  IN  <<IF neg THEN 0 - num ELSE num, Pow10(Len(frac))>>

(***************************************************************************)
(* Parser: consume, skip_nl, fin.                                          *)
(***************************************************************************)
consume ==
  /\ phase = "parse" /\ Here.op = "consume"
  /\ undefRef' = (undefRef \/ (match(Here.t, Here.v) /\ Here.ln \in {344, 354, 362}
                               /\ loc.tx_pid \notin seenP))
  /\ nlGap' = (nlGap /\ match(Here.t, Here.v) /\ Here.ln \in {211, 256})
  /\ UNCHANGED <<seenC, seenP, kwAtId, finEntry>>
  /\ IF match(Here.t, Here.v)
     THEN Same(TRUE, Done)
     ELSE Raise(FALSE, "syntactic", "esperaba")

\* one test of the loop condition of skip_nl, and the loop body if it holds
skip_nl ==
  /\ At("call", "skip_nl")
  /\ nlGap' = (nlGap \/ (match("NL", None) /\ Here.ln \in {210, 255}))
  /\ UNCHANGED <<seenC, seenP, undefRef, kwAtId, finEntry>>
  /\ IF match("NL", None) THEN Same(TRUE, stack) ELSE Same(FALSE, Done)

fin ==
  /\ At("call", "fin")
  /\ finEntry' = [pos |-> pos, first |-> cur.type, stack |-> stack,
                  carousels |-> carousels_defined, products |-> products_defined]
  /\ UNCHANGED <<seenC, seenP, undefRef, kwAtId, nlGap>>
  /\ IF match("SEMI", None) THEN Same(FALSE, Push("fin_semi"))
     ELSE IF match("NL", None) THEN Same(FALSE, Push("fin_nl"))
     ELSE Raise(FALSE, "syntactic", "fin")

\* the locals of a method, gone when it returns
LocalsOf(f) ==
  CASE f = "def_carrusel" -> {"cid"}
    [] f = "parametros" -> {"espacios", "capacidad"}
    [] f = "def_producto" -> {"pid", "precio", "minimo", "maximo"}
    [] f = "tx" -> {"tx_pid", "qty"}
    [] OTHER -> {}

\* a method returns to the statement after its call
return ==
  /\ phase = "parse" /\ Here.op = "return"
  /\ finEntry' = IF Here.t = "fin" THEN NoFin ELSE finEntry
  /\ UNCHANGED <<seenC, seenP, undefRef, kwAtId, nlGap>>
  /\ Go(FALSE, After(Tail(stack)), carousels_defined, products_defined,
        [x \in DOMAIN loc |-> IF x \in LocalsOf(Here.t) THEN NoLocals[x] ELSE loc[x]])

\* the end of the body of a while loop: back to its condition
next_iteration ==
  /\ phase = "parse" /\ Here.op = "next"
  /\ UNCHANGED histVars
  /\ Resume(FALSE, Tail(stack), carousels_defined, products_defined, loc, Tail(iters))

\* one test of the condition of a while loop whose body is `body`
While(cond, body) ==
  /\ UNCHANGED histVars
  /\ IF cond
     THEN Resume(FALSE, Push(body), carousels_defined, products_defined, loc,
                 <<FALSE>> \o iters)
     ELSE Same(FALSE, Done)

\* a method is called
Enter(f) ==
  /\ UNCHANGED histVars
  /\ Same(FALSE, Push(f))

(***************************************************************************)
(* Parser: the grammar.                                                    *)
(***************************************************************************)
programa ==
  /\ At("call", "programa")
  /\ Enter("programa")

definiciones ==
  /\ At("call", "definiciones")
  /\ While(match("KW", CARRUSEL), "definiciones_loop")

def_carrusel ==
  /\ At("call", "def_carrusel")
  /\ Enter("def_carrusel")

\* cid = self.consume("ID").value and the checks of the identifier
def_carrusel_id ==
  /\ At("cid", "")
  /\ seenC' = IF match("ID", None) THEN seenC \cup {cur.value} ELSE seenC
  /\ kwAtId' = (kwAtId \/ cur.type = "KW")
  /\ UNCHANGED <<seenP, undefRef, finEntry, nlGap>>
  /\ IF ~match("ID", None) THEN Raise(FALSE, "syntactic", "esperaba")
     ELSE IF cur.value \in RESERVED THEN Raise(TRUE, "semantic", "reservada")
     ELSE IF cur.value \in carousels_defined THEN Raise(TRUE, "semantic", "carrusel_dup")
     ELSE Go(TRUE, Done, carousels_defined \cup {cur.value}, products_defined,
             [loc EXCEPT !.cid = cur.value])

parametros ==
  /\ At("call", "parametros")
  /\ Enter("parametros")

\* espacios = int(self.consume("INT").value) and its check
parametros_espacios ==
  /\ At("espacios", "")
  /\ UNCHANGED histVars
  /\ IF ~match("INT", None) THEN Raise(FALSE, "syntactic", "esperaba")
     ELSE IF IntOf(cur.value) <= 0 THEN Raise(TRUE, "semantic", "espacios")
     ELSE Go(TRUE, Done, carousels_defined, products_defined,
             [loc EXCEPT !.espacios = IntOf(cur.value)])

\* capacidad = int(self.consume("INT").value) and its check
parametros_capacidad ==
  /\ At("capacidad", "")
  /\ UNCHANGED histVars
  /\ IF ~match("INT", None) THEN Raise(FALSE, "syntactic", "esperaba")
     ELSE IF IntOf(cur.value) <= 0 THEN Raise(TRUE, "semantic", "capacidad")
     ELSE Go(TRUE, Done, carousels_defined, products_defined,
             [loc EXCEPT !.capacidad = IntOf(cur.value)])

catalogo ==
  /\ At("call", "catalogo")
  /\ While(match("KW", PRODUCTO), "catalogo_loop")

def_producto ==
  /\ At("call", "def_producto")
  /\ Enter("def_producto")

\* def_producto_id without self.products_defined.add(pid)
Mut_def_producto_id ==
  /\ At("pid", "")
  /\ seenP' = IF match("ID", None) THEN seenP \cup {cur.value} ELSE seenP
  /\ kwAtId' = (kwAtId \/ cur.type = "KW")
  /\ UNCHANGED <<seenC, undefRef, finEntry, nlGap>>
  /\ IF ~match("ID", None) THEN Raise(FALSE, "syntactic", "esperaba")
     ELSE IF cur.value \in RESERVED THEN Raise(TRUE, "semantic", "reservada")
     ELSE IF cur.value \in products_defined THEN Raise(TRUE, "semantic", "producto_dup")
     ELSE Go(TRUE, Done, carousels_defined, products_defined,
             [loc EXCEPT !.pid = cur.value])

\* pid = self.consume("ID").value and the checks of the identifier
def_producto_id ==
  /\ At("pid", "")
  /\ seenP' = IF match("ID", None) THEN seenP \cup {cur.value} ELSE seenP
  /\ kwAtId' = (kwAtId \/ cur.type = "KW")
  /\ UNCHANGED <<seenC, undefRef, finEntry, nlGap>>
  /\ IF ~match("ID", None) THEN Raise(FALSE, "syntactic", "esperaba")
     ELSE IF cur.value \in RESERVED THEN Raise(TRUE, "semantic", "reservada")
     ELSE IF cur.value \in products_defined THEN Raise(TRUE, "semantic", "producto_dup")
     ELSE Go(TRUE, Done, carousels_defined, products_defined \cup {cur.value},
             [loc EXCEPT !.pid = cur.value])

\* precio = float(self.consume("DECIMAL").value) and its check
def_producto_precio ==
  /\ At("precio", "")
  /\ UNCHANGED histVars
  /\ IF ~match("DECIMAL", None) THEN Raise(FALSE, "syntactic", "esperaba")
     ELSE IF FloatOf(cur.value)[1] < 0 THEN Raise(TRUE, "semantic", "precio")
     ELSE Go(TRUE, Done, carousels_defined, products_defined,
             [loc EXCEPT !.precio = FloatOf(cur.value)])

\* minimo = int(self.consume("INT").value)
def_producto_minimo ==
  /\ At("minimo", "")
  /\ UNCHANGED histVars
  /\ IF ~match("INT", None) THEN Raise(FALSE, "syntactic", "esperaba")
     ELSE Go(TRUE, Done, carousels_defined, products_defined,
             [loc EXCEPT !.minimo = IntOf(cur.value)])

\* def_producto_maximo with minimo >= maximo for minimo > maximo
Mut_def_producto_maximo ==
  /\ At("maximo", "")
  /\ UNCHANGED histVars
  /\ IF ~match("INT", None) THEN Raise(FALSE, "syntactic", "esperaba")
     ELSE IF loc.minimo >= IntOf(cur.value) THEN Raise(TRUE, "semantic", "minimo_maximo")
     ELSE Go(TRUE, Done, carousels_defined, products_defined,
             [loc EXCEPT !.maximo = IntOf(cur.value)])

\* maximo = int(self.consume("INT").value) and the check against minimo
def_producto_maximo ==
  /\ At("maximo", "")
  /\ UNCHANGED histVars
  /\ IF ~match("INT", None) THEN Raise(FALSE, "syntactic", "esperaba")
     ELSE IF loc.minimo > IntOf(cur.value) THEN Raise(TRUE, "semantic", "minimo_maximo")
     ELSE Go(TRUE, Done, carousels_defined, products_defined,
             [loc EXCEPT !.maximo = IntOf(cur.value)])

\* the criticality: one of the three reserved words
def_producto_criticidad ==
  /\ At("criticidad", "")
  /\ UNCHANGED histVars
  /\ IF match("KW", ALTA) \/ match("KW", MEDIA) \/ match("KW", BAJA)
     THEN Same(TRUE, Done)
     ELSE Raise(FALSE, "syntactic", "criticidad")

simulacion ==
  /\ At("call", "simulacion")
  /\ Enter("simulacion")

\* the loop over the queries of simulacion
simulacion_consultas ==
  /\ At("consultas", "")
  /\ While(match("KW", ESTADO) \/ match("KW", ESTADISTICAS) \/ match("KW", REPORTE),
           "consultas_loop")

bloque_transacciones ==
  /\ At("call", "bloque_transacciones")
  /\ Enter("bloque_transacciones")

\* if not self.match("RBRACKET"): self.lista_tx()
bloque_transacciones_lista ==
  /\ At("lista", "")
  /\ UNCHANGED histVars
  /\ IF ~match("RBRACKET", None)
     THEN Same(FALSE, Push("lista_tx"))
     ELSE Same(FALSE, Done)

\* the test before the fin after ']'
bloque_transacciones_fin ==
  /\ At("fin_bloque", "")
  /\ UNCHANGED histVars
  /\ IF match("SEMI", None) \/ match("NL", None)
     THEN Same(FALSE, Done)
     ELSE Raise(FALSE, "syntactic", "falta_fin")

\* lista_tx is called: by bloque_transacciones_lista

\* the loop of lista_tx
lista_tx_mas ==
  /\ At("mas_tx", "")
  /\ While(match("COMMA", None), "lista_tx_loop")

tx ==
  /\ At("call", "tx")
  /\ UNCHANGED histVars
  /\ IF match("KW", RETIRAR) THEN Same(FALSE, Push("tx_retirar"))
     ELSE IF match("KW", RESURTIR) THEN Same(FALSE, Push("tx_resurtir"))
     ELSE IF match("KW", CONTAR) THEN Same(FALSE, Push("tx_contar"))
     ELSE Raise(FALSE, "syntactic", "tx")

\* tx_pid taking a reserved word for an identifier
Mut_tx_pid ==
  /\ At("tx_pid", "")
  /\ kwAtId' = (kwAtId \/ cur.type = "KW")
  /\ UNCHANGED <<seenC, seenP, undefRef, finEntry, nlGap>>
  /\ IF ~(match("ID", None) \/ match("KW", None)) THEN Raise(FALSE, "syntactic", "esperaba")
     ELSE Go(TRUE, Done, carousels_defined, products_defined,
             [loc EXCEPT !.tx_pid = cur.value])

\* pid = self.consume("ID").value
tx_pid ==
  /\ At("tx_pid", "")
  /\ kwAtId' = (kwAtId \/ cur.type = "KW")
  /\ UNCHANGED <<seenC, seenP, undefRef, finEntry, nlGap>>
  /\ IF ~match("ID", None) THEN Raise(FALSE, "syntactic", "esperaba")
     ELSE Go(TRUE, Done, carousels_defined, products_defined,
             [loc EXCEPT !.tx_pid = cur.value])

\* qty = int(self.consume("INT").value)
tx_qty ==
  /\ At("tx_qty", "")
  /\ UNCHANGED histVars
  /\ IF ~match("INT", None) THEN Raise(FALSE, "syntactic", "esperaba")
     ELSE Go(TRUE, Done, carousels_defined, products_defined,
             [loc EXCEPT !.qty = IntOf(cur.value)])

\* check_tx_semantics without the test of the product
Mut_check_tx_semantics ==
  /\ phase = "parse" /\ Here.op = "check_tx_semantics"
  /\ UNCHANGED histVars
  /\ LET qty == IF Here.t = "1" THEN 1 ELSE loc.qty IN
     IF qty <= 0 THEN Raise(FALSE, "semantic", "cantidad")
     ELSE Same(FALSE, Done)

\* check_tx_semantics(pid, qty), and check_tx_semantics(pid, 1) for CONTAR
check_tx_semantics ==
  /\ phase = "parse" /\ Here.op = "check_tx_semantics"
  /\ UNCHANGED histVars
  /\ LET qty == IF Here.t = "1" THEN 1 ELSE loc.qty IN
     IF loc.tx_pid \notin products_defined THEN Raise(FALSE, "semantic", "no_definido")
     ELSE IF qty <= 0 THEN Raise(FALSE, "semantic", "cantidad")
     ELSE Same(FALSE, Done)

consulta ==
  /\ At("call", "consulta")
  /\ UNCHANGED histVars
  /\ IF match("KW", ESTADO) THEN Same(FALSE, Push("consulta_estado"))
     ELSE IF match("KW", ESTADISTICAS) THEN Same(FALSE, Push("consulta_estadisticas"))
     ELSE IF match("KW", REPORTE) THEN Same(FALSE, Push("consulta_reporte"))
     ELSE Raise(FALSE, "syntactic", "consulta")

\* parser.programa() has returned: main prints OK
main_ok ==
  /\ At("ok", "")
  /\ phase' = "accepted"
  /\ UNCHANGED <<lexVars, err, parseVars, histVars, iters>>

(***************************************************************************)
(* The specifications.                                                     *)
(***************************************************************************)
Tokenize ==
  \/ LexNewline \/ LexWhitespace \/ LexComment \/ LexSymbol \/ LexString
  \/ LexDecimal \/ LexInt \/ LexId \/ LexUnknown \/ LexEOF

Parse ==
  \/ consume \/ skip_nl \/ fin \/ return \/ next_iteration
  \/ programa \/ definiciones \/ def_carrusel \/ def_carrusel_id
  \/ parametros \/ parametros_espacios \/ parametros_capacidad
  \/ catalogo \/ def_producto \/ def_producto_id \/ def_producto_precio
  \/ def_producto_minimo \/ def_producto_maximo \/ def_producto_criticidad
  \/ simulacion \/ simulacion_consultas
  \/ bloque_transacciones \/ bloque_transacciones_lista \/ bloque_transacciones_fin
  \/ lista_tx_mas \/ tx \/ tx_pid \/ tx_qty \/ check_tx_semantics
  \/ consulta \/ main_ok

\* Spec: Parser.programa over every token list of at most MaxLen tokens
Init ==
  /\ text = <<>> /\ i = 0 /\ line = 1 /\ col = 1 /\ tokens = <<>>
  /\ phase = "parse" /\ err = NoError
  /\ pos = 0
  /\ cur \in {t \in StreamTokens : t.type = "NL" => MaxNL > 0}
  /\ nl = (IF cur.type = "NL" THEN 1 ELSE 0)
  /\ products_defined = {} /\ carousels_defined = {}
  /\ stack = <<Frame("main")>> /\ stmt = StmtAt(stack) /\ loc = NoLocals
  /\ seenC = {} /\ seenP = {} /\ undefRef = FALSE /\ kwAtId = FALSE
  /\ finEntry = NoFin /\ nlGap = FALSE /\ iters = <<>>

Next == Parse

Spec == Init /\ [][Next]_vars

\* SpecLex: main over every text of at most MaxTextLen characters of
\* SmallAlphabet, and over the three programs
InitLex ==
  /\ text \in SmallTexts \cup Programs
  /\ i = 0 /\ line = 1 /\ col = 1 /\ tokens = <<>>
  /\ phase = "lex" /\ err = NoError
  /\ ParserIdle

NextLex == Tokenize \/ main_parse \/ Parse

SpecLex == InitLex /\ [][NextLex]_vars

(***************************************************************************)
(* Properties.                                                             *)
(***************************************************************************)
Terminal == phase \in {"accepted", "rejected"}

\* the line of character k of t: 1 plus the newlines before it
LineOf(t, k) == 1 + Cardinality({j \in 1..(k - 1) : t[j] = "\n"})

\* the column of character k of t: its distance from the last newline before it
ColOf(t, k) ==
  LET nls == {j \in 1..(k - 1) : t[j] = "\n"}
      lastNl == IF nls = {} THEN 0 ELSE CHOOSE j \in nls : \A m \in nls : m <= j
  IN  k - lastNl

\* C1: when the identifier of a CARRUSEL (PRODUCTO) definition is reached and
\* an earlier CARRUSEL (PRODUCTO, of any carousel) definition has the same
\* identifier, the step that consumes the identifier ends the run Rejected
\* with the duplicate-identifier semantic error, the position just after the
\* identifier; and no step changes anything once the run is Rejected.
C1_DuplicateIdentifier ==
  [][ /\ (At("cid", "") /\ cur.type = "ID" /\ cur.value \in seenC)
           => /\ phase' = "rejected"
              /\ err' = Error("semantic", "carrusel_dup", 0, 0)
              /\ pos' = pos + 1
      /\ (At("pid", "") /\ cur.type = "ID" /\ cur.value \in seenP)
           => /\ phase' = "rejected"
              /\ err' = Error("semantic", "producto_dup", 0, 0)
              /\ pos' = pos + 1
      /\ phase = "rejected" => UNCHANGED vars ]_vars

\* a product identifier of the first carousel is defined again in the second
W_C1 ==
  /\ phase = "rejected" /\ err.code = "producto_dup"
  /\ Cardinality(carousels_defined) = 2 /\ Here.ln = 248

\* C2: once a complete transaction entry names a product no definition above
\* it declared, the only step left is the check of that entry, which rejects
\* with the undefined-product semantic error: no further token is consumed
\* and the run is never Accepted.
C2_UndefinedProduct ==
  undefRef =>
    /\ Here.op = "check_tx_semantics"
    /\ phase \in {"parse", "rejected"}
    /\ phase = "parse" => ENABLED check_tx_semantics
    /\ phase = "rejected" => err = Error("semantic", "no_definido", 0, 0)

\* a transaction names b where only a is a product
W_C2 ==
  /\ phase = "rejected" /\ undefRef /\ seenP # {}
  /\ err.code = "no_definido"

\* C3: the program with PRECIO: -1.0 (one carousel, one product,
\* RESURTIR(p1, 5), ESTADO) ends Rejected with the semantic error that
\* PRECIO must be >= 0.
Orig_C3 ==
  (text = NegativePriceProgram /\ Terminal)
    => (phase = "rejected" /\ err.kind = "semantic" /\ err.code = "precio")

\* what the code does with it: tokenize stops at the '-' of line 5, column 9
W_C3 == text = NegativePriceProgram /\ phase = "rejected" /\ err.line = 5 /\ err.col = 9

\* C4: when fin returns, whatever terminator it met (';', ';' and newlines,
\* one newline, several newlines), the parser is in the state it entered fin
\* in, but for the position: same statements left, same symbol table, no
\* error, and the current token is the first after the terminator that is
\* not a newline.  When fin is entered at a token that is neither ';' nor a
\* newline, it rejects with a syntactic error without consuming it.
C4_Terminator ==
  /\ [](At("return", "fin") =>
          /\ cur.type # "NL"
          /\ err = NoError
          /\ Tail(stack) = finEntry.stack
          /\ carousels_defined = finEntry.carousels
          /\ products_defined = finEntry.products
          /\ finEntry.first \in {"SEMI", "NL"}
          /\ pos > finEntry.pos)
  /\ []((stack # <<>> /\ Head(stack).f \in {"fin_semi", "fin_nl"}) => phase = "parse")
  /\ [][ /\ (At("call", "fin") /\ cur.type \notin {"SEMI", "NL"})
              => /\ phase' = "rejected" /\ err'.kind = "syntactic" /\ pos' = pos
         /\ (At("fin_bloque", "") /\ cur.type \notin {"SEMI", "NL"})
              => /\ phase' = "rejected" /\ err'.kind = "syntactic" /\ pos' = pos ]_vars

\* fin has skipped two newline tokens
W_C4 == At("return", "fin") /\ finEntry.first = "NL" /\ pos = finEntry.pos + 2

\* C5 as stated: every text with an '@' makes tokenize fail with a lexical
\* error at the line and column of an '@'.
Orig_C5 ==
  ((\E k \in 1..Len(text) : text[k] = "@") /\ phase # "lex")
    => /\ phase = "rejected" /\ err.kind = "lexical"
       /\ \E k \in 1..Len(text) :
            text[k] = "@" /\ err.line = LineOf(text, k) /\ err.col = ColOf(text, k)

\* characters that, before an '@', neither open a comment or a string nor
\* are invalid themselves
CleanChars == Letters \cup Digits \cup {" ", "\t", "\n"} \cup DOMAIN SYMBOLS

\* C5, amended: a lexical error about '@' reports exactly the line and column
\* of the '@' the scan stopped at; and when only letters, digits, blanks,
\* newlines and structural symbols precede the first '@' of the text,
\* tokenize fails at that '@'.
C5_StrayCharacter ==
  /\ (phase = "rejected" /\ err.kind = "lexical" /\ err.code = "@")
       => /\ i < Len(text) /\ text[i + 1] = "@"
          /\ err.line = LineOf(text, i + 1)
          /\ err.col = ColOf(text, i + 1)
  /\ \A k \in 1..Len(text) :
       (text[k] = "@" /\ (\A j \in 1..(k - 1) : text[j] \in CleanChars) /\ phase # "lex")
         => (phase = "rejected" /\ err.kind = "lexical" /\ err.code = "@" /\ i = k - 1)

W_C5 ==
  /\ phase = "rejected" /\ err.kind = "lexical" /\ err.code = "@"
  /\ err.line = 2 /\ err.col = 2

\* C6: once a reserved word has stood where an identifier is expected (the
\* name of a CARRUSEL, the name of a PRODUCTO, the product of a transaction),
\* the run is Rejected with a syntactic or semantic error.
C6_ReservedWordAsIdentifier ==
  kwAtId => (phase = "rejected" /\ err.kind \in {"syntactic", "semantic"})

\* a reserved word stood where the product of a transaction is named
W_C6 == kwAtId /\ phase = "rejected" /\ Here.op = "tx_pid" /\ err.kind = "syntactic"

\* a text digits '.' digits
IsDecimalText(t) ==
  \E a \in 1..(Len(t) - 2) :
    /\ \A k \in 1..a : t[k] \in Digits
    /\ t[a + 1] = "."
    /\ \A k \in (a + 2)..Len(t) : t[k] \in Digits

\* C7: on a text digits '.' digits, tokenize never emits an INT token, and
\* returns exactly the DECIMAL token of the whole text and the EOF token.
C7_DecimalLexing ==
  IsDecimalText(text) =>
    /\ \A k \in 1..Len(tokens) : tokens[k].type # "INT"
    /\ err.kind # "lexical"
    /\ phase # "lex" =>
         tokens = <<Token("DECIMAL", text, 1, 1), Token("EOF", <<>>, 1, Len(text) + 1)>>

W_C7 == text = <<"1", "1", ".", "1">> /\ phase = "lexed"

\* C8: at the MAXIMO literal b of a product whose MINIMO literal is a: if
\* a > b the step that consumes b rejects with the MINIMO <= MAXIMO semantic
\* error, the terminator not examined; otherwise it raises nothing and the
\* terminator is the next thing parsed.
C8_MinimoMaximo ==
  [][ (At("maximo", "") /\ cur.type = "INT") =>
        IF loc.minimo > IntOf(cur.value)
        THEN /\ phase' = "rejected"
             /\ err' = Error("semantic", "minimo_maximo", 0, 0)
             /\ pos' = pos + 1
             /\ finEntry' = finEntry /\ stack' = stack
        ELSE /\ phase' = "parse" /\ err' = NoError
             /\ pos' = pos + 1
             /\ StmtAt(stack') = Call("fin", 276) ]_vars

\* MINIMO = MAXIMO = 1 was read and the parse goes on
W_C8 == phase = "parse" /\ loc.minimo = 1 /\ loc.maximo = 1 /\ Here = Call("fin", 276)

\* the statement indices of the frames of s, from the bottom of the stack
Indices(s) == [j \in 1..Len(s) |-> s[Len(s) + 1 - j].k]

\* a is before b in the order of execution: b goes on from a prefix of a
\* that it shares, deeper or further
Before(a, b) ==
  \E j \in 1..Len(b) :
    /\ j <= Len(a) + 1
    /\ \A m \in 1..(j - 1) : a[m] = b[m]
    /\ j = Len(a) + 1 \/ a[j] < b[j]

\* C9: the position never decreases; the end of a loop body is reached only
\* after the iteration consumed a token, and every other step consumes a
\* token, ends the run, or moves forward in the statements; the position
\* never passes the end of the token list and a step is always possible
\* before the run has ended: so the run ends, in Accepted (no error, the
\* EOF token consumed last, after a whole SIMULAR block) or in Rejected
\* (with an error), and nothing runs after that.
C9_Termination ==
  /\ [][ /\ pos' >= pos
         /\ IF Here.op = "next"
            THEN Head(iters) /\ pos' = pos /\ stack' = Tail(stack)
            ELSE \/ pos' > pos
                 \/ phase' \in {"accepted", "rejected"}
                 \/ Before(Indices(stack), Indices(stack')) ]_vars
  /\ [](/\ pos <= MaxLen
        /\ cur = NoToken => (phase \in {"parse", "accepted"} /\ Here.ln \notin 169..392)
        /\ phase = "accepted" => (cur = NoToken /\ err = NoError /\ pos >= 9)
        /\ (phase = "rejected") = (err # NoError)
        /\ Terminal => ~ENABLED Next
        /\ phase = "parse" => ENABLED Next)

W_C9 == phase = "accepted" /\ seenP # {} /\ loc = NoLocals

\* C10 as stated: no definition goes on past its '{' when newline tokens
\* stand between its identifier and the '{'.
Orig_C10 == ~(phase = "parse" /\ nlGap /\ stack # <<>> /\ Here.ln \in {212, 257})

\* C10, amended: between the identifier of a CARRUSEL or PRODUCTO definition
\* and its '{' the parser skips newline tokens; at the first token there that
\* is not a newline it goes on if the token is '{' and rejects with a
\* syntactic error, without consuming it, if it is not.
C10_NewlinesBeforeBrace ==
  [][ /\ (At("call", "skip_nl") /\ Here.ln \in {210, 255} /\ cur.type = "NL")
           => (phase' = "parse" /\ pos' = pos + 1 /\ stack' = stack)
      /\ (At("consume", "LBRACE") /\ Here.ln \in {211, 256})
           => /\ cur.type # "NL"
              /\ IF cur.type = "LBRACE"
                 THEN phase' = "parse" /\ err' = NoError /\ pos' = pos + 1
                 ELSE /\ phase' = "rejected" /\ pos' = pos
                      /\ err' = Error("syntactic", "esperaba", 0, 0) ]_vars

W_C10 == phase = "parse" /\ nlGap /\ stack # <<>> /\ Here.ln = 257

====
